---- MODULE Spec2Model ----
(***************************************************************************)
(* A model of tower-consul (src/src/lib.rs): the Consul client built on a  *)
(* tower_buffer::Buffer over an HttpService.                               *)
(*                                                                         *)
(* Strings are sequences of tokens.  A token is either a run of characters *)
(* that are legal in a URI and are neither '?' nor '#', or one of the      *)
(* single characters "?", "#", " " that the URI parser treats specially.   *)
(* Response bodies are atoms standing for byte strings; what UTF-8         *)
(* decoding and JSON decoding do with each atom is spelled out below.      *)
(***************************************************************************)
EXTENDS Integers, Sequences, FiniteSets, TLC

\* ------------------------------------------------------------------ bounds
\* Largest concurrency bound handed to Consul::new.
MaxBound == 2
\* Number of calls submitted in one behaviour of Spec.
MaxCalls == 3
\* Number of calls in one behaviour of the specifications that add an action
\* (Clone, DropFuture) to those of Spec.
MaxSmallCalls == 2
\* Number of clones made of the client.
MaxClones == 1

\* ----------------------------------------------------------------- strings
NoQuery == <<"<none>">>
EmptyBytes == ""

\* Characters the http crate's URI parser rejects (URI_CHARS maps them to 0).
IllegalChars == {" "}

RECURSIVE IndexOf(_, _, _)
\* The first position >= i of s holding a token of set cs, or 0.
IndexOf(s, cs, i) ==
    IF i > Len(s) THEN 0
    ELSE IF s[i] \in cs THEN i
    ELSE IndexOf(s, cs, i + 1)

HasIllegal(s) == \E i \in 1..Len(s) : s[i] \in IllegalChars

\* Uri::builder().scheme(..) : a scheme is accepted when it is not empty and
\* holds only legal scheme characters.
SchemeOk(s) == Len(s) > 0 /\ ~HasIllegal(s) /\ IndexOf(s, {"?", "#", "/"}, 1) = 0

\* Uri::builder().authority(..) : likewise for the authority.
AuthorityOk(a) == Len(a) > 0 /\ ~HasIllegal(a) /\ IndexOf(a, {"?", "#", "/"}, 1) = 0

\* Uri::builder().path_and_query(url): the text is cut at the first '#'
\* (a fragment is dropped), split at the first '?', and refused when it
\* holds an illegal character before the cut.
PathAndQuery(url) ==
    LET h == IndexOf(url, {"#"}, 1)
        kept == IF h = 0 THEN url ELSE SubSeq(url, 1, h - 1)
        q == IndexOf(kept, {"?"}, 1)
    IN  IF HasIllegal(kept) THEN [ok |-> FALSE, path |-> <<>>, query |-> NoQuery]
        ELSE IF q = 0 THEN [ok |-> TRUE, path |-> kept, query |-> NoQuery]
        ELSE [ok |-> TRUE, path |-> SubSeq(kept, 1, q - 1),
              query |-> SubSeq(kept, q + 1, Len(kept))]

\* ---------------------------------------------------------------- requests
NoRequest == [ok |-> FALSE]

\* (mutant) a build that never looks at the authority.
buildAnyAuthority(sch, auth, url, method, body) ==
    LET pq == PathAndQuery(url)
    IN  IF SchemeOk(sch) /\ pq.ok
        THEN [ok |-> TRUE, method |-> method, scheme |-> sch, authority |-> auth,
              path |-> pq.path, query |-> pq.query, body |-> body]
        ELSE NoRequest

\* Consul::build: compose scheme, authority and url into an absolute URI and
\* wrap it with the method and the body; any part that does not parse makes
\* the whole build fail with Error::Http.
build(sch, auth, url, method, body) ==
    LET pq == PathAndQuery(url)
    IN  IF SchemeOk(sch) /\ AuthorityOk(auth) /\ pq.ok
        THEN [ok |-> TRUE, method |-> method, scheme |-> sch, authority |-> auth,
              path |-> pq.path, query |-> pq.query, body |-> body]
        ELSE NoRequest

\* The six operations of the client.
Ops == {"get", "get_keys", "set", "delete", "service_nodes", "register"}

\* format!(...) of each operation: the url text handed to build.
UrlOf(op, arg) ==
    CASE op = "get"           -> <<"/v1/kv/">> \o arg
      [] op = "get_keys"      -> <<"/v1/kv/">> \o arg \o <<"?", "keys">>
      [] op = "set"           -> <<"/v1/kv/">> \o arg
      [] op = "delete"        -> <<"/v1/kv/">> \o arg
      [] op = "service_nodes" -> <<"/v1/catalog/service/">> \o arg
      [] op = "register"      -> <<"/v1/agent/service/register">>

\* (mutant) a delete sent as a read.
MethodOfDeleteAsGet(op) ==
    CASE op \in {"get", "get_keys", "service_nodes", "delete"} -> "GET"
      [] op \in {"set", "register"}                            -> "PUT"

MethodOf(op) ==
    CASE op \in {"get", "get_keys", "service_nodes"} -> "GET"
      [] op \in {"set", "register"}                  -> "PUT"
      [] op = "delete"                               -> "DELETE"

\* The body each operation hands to build: the caller's bytes for set and
\* register, Bytes::new() for the others.
BodyOf(op, bytes) == IF op \in {"set", "register"} THEN bytes ELSE EmptyBytes

\* The request an operation builds on a client configured with sch, auth.
RequestOf(sch, auth, op, arg, bytes) ==
    build(sch, auth, UrlOf(op, arg), MethodOf(op), BodyOf(op, bytes))

\* The type R each operation asks ConsulFuture to decode into; register does
\* not go through ConsulFuture.
DecodeType(op) ==
    CASE op = "get"           -> "Vec<KVValue>"
      [] op = "get_keys"      -> "Vec<String>"
      [] op = "set"           -> "bool"
      [] op = "delete"        -> "bool"
      [] op = "service_nodes" -> "Vec<ConsulService>"
      [] op = "register"      -> "()"

\* -------------------------------------------------------------- status code
is_informational(s) == 100 <= s /\ s < 200
is_success(s)       == 200 <= s /\ s < 300
is_redirection(s)   == 300 <= s /\ s < 400
is_client_error(s)  == 400 <= s /\ s < 500
is_server_error(s)  == 500 <= s /\ s < 600
NOT_FOUND == 404

\* ------------------------------------------------------------------ bodies
InvalidUtf8 == "\\xff"
Replacement == "\\u{FFFD}"

\* (mutant) the bytes taken as text unchecked.
from_utf8_unchecked(b) == b

\* String::from_utf8_lossy(..).into_owned(): valid UTF-8 is kept as it is,
\* an invalid sequence becomes U+FFFD; it never fails.
from_utf8_lossy(b) == IF b = InvalidUtf8 THEN Replacement ELSE b

\* (mutant) a decoder that reads every body as `true` when a bool is asked for.
from_sliceBoolTrue(R, b) ==
    CASE R = "bool" -> [ok |-> TRUE, val |-> "true"]
      [] R = "Vec<KVValue>" /\ b \in {"[]", "[kv]"} -> [ok |-> TRUE, val |-> b]
      [] R = "Vec<String>" /\ b \in {"[]", "[keys]"} -> [ok |-> TRUE, val |-> b]
      [] R = "Vec<ConsulService>" /\ b \in {"[]", "[nodes]"} -> [ok |-> TRUE, val |-> b]
      [] OTHER -> [ok |-> FALSE, val |-> ""]

\* serde_json::from_slice::<R>: the value a body decodes to, or a failure.
from_slice(R, b) ==
    CASE R = "bool" /\ b = "true"  -> [ok |-> TRUE, val |-> "true"]
      [] R = "bool" /\ b = "false" -> [ok |-> TRUE, val |-> "false"]
      [] R = "Vec<KVValue>" /\ b \in {"[]", "[kv]"} -> [ok |-> TRUE, val |-> b]
      [] R = "Vec<String>" /\ b \in {"[]", "[keys]"} -> [ok |-> TRUE, val |-> b]
      [] R = "Vec<ConsulService>" /\ b \in {"[]", "[nodes]"} -> [ok |-> TRUE, val |-> b]
      [] OTHER -> [ok |-> FALSE, val |-> ""]

\* ---------------------------------------------------------------- outcomes
Outcome(kind, val, of) == [kind |-> kind, val |-> val, of |-> of]
NoOutcome == Outcome("none", "", 0)

\* A transport result: a response, or the transport's own error.  req names
\* the request the transport produced it for.
Response(status, body, req) == [tag |-> "response", status |-> status, body |-> body, req |-> req]
TransportError(req) == [tag |-> "error", status |-> 0, body |-> "", req |-> req]
EmptySlot == [tag |-> "empty", status |-> 0, body |-> "", req |-> 0]

\* (mutant) handle_status with the 404 test placed after the 4xx test.
handle_statusClientFirst(r) ==
    IF is_success(r.status) \/ is_redirection(r.status) \/ is_informational(r.status)
    THEN Outcome("Ok", r.body, r.req)
    ELSE IF is_client_error(r.status)
    THEN Outcome("ConsulClient", from_utf8_lossy(r.body), r.req)
    ELSE IF r.status = NOT_FOUND THEN Outcome("NotFound", "", r.req)
    ELSE IF is_server_error(r.status)
    THEN Outcome("ConsulServer", from_utf8_lossy(r.body), r.req)
    ELSE Outcome("Panic", "unreachable", r.req)

\* Consul::handle_status: the status interpretation register uses.
handle_status(r) ==
    IF is_success(r.status) \/ is_redirection(r.status) \/ is_informational(r.status)
    THEN Outcome("Ok", r.body, r.req)
    ELSE IF r.status = NOT_FOUND THEN Outcome("NotFound", "", r.req)
    ELSE IF is_client_error(r.status)
    THEN Outcome("ConsulClient", from_utf8_lossy(r.body), r.req)
    ELSE IF is_server_error(r.status)
    THEN Outcome("ConsulServer", from_utf8_lossy(r.body), r.req)
    ELSE Outcome("Panic", "unreachable", r.req)

\* (mutant) a register that decodes the body it was answered with.
register_futureDecoding(r) ==
    IF r.tag = "error" THEN Outcome("Inner", "", r.req)
    ELSE LET h == handle_status(r)
         IN  IF h.kind = "Ok"
             THEN IF from_slice("()", h.val).ok THEN Outcome("Ok", "()", r.req)
                  ELSE Outcome("Json", "", r.req)
             ELSE h

\* The future register returns: map_err(Error::Inner), then handle_status,
\* then map(|_| ()).
register_future(r) ==
    IF r.tag = "error" THEN Outcome("Inner", "", r.req)
    ELSE LET h == handle_status(r)
         IN  IF h.kind = "Ok" THEN Outcome("Ok", "()", r.req) ELSE h

\* (mutant) poll that decodes the body first and looks at the status only
\* when the body does not decode.
pollDecodeFirst(R, r) ==
    IF r.tag = "error" THEN Outcome("Inner", "", r.req)
    ELSE LET d == from_slice(R, r.body)
         IN  IF d.ok THEN Outcome("Ok", d.val, r.req)
             ELSE IF is_success(r.status) \/ is_redirection(r.status)
                     \/ is_informational(r.status)
             THEN Outcome("Json", "", r.req)
             ELSE IF r.status = NOT_FOUND THEN Outcome("NotFound", "", r.req)
             ELSE IF is_client_error(r.status)
             THEN Outcome("ConsulClient", from_utf8_lossy(r.body), r.req)
             ELSE IF is_server_error(r.status)
             THEN Outcome("ConsulServer", from_utf8_lossy(r.body), r.req)
             ELSE Outcome("Panic", "unreachable", r.req)

\* (mutant) poll with the 404 test placed after the 4xx test.
pollClientFirst(R, r) ==
    IF r.tag = "error" THEN Outcome("Inner", "", r.req)
    ELSE IF is_success(r.status) \/ is_redirection(r.status) \/ is_informational(r.status)
    THEN LET d == from_slice(R, r.body)
         IN  IF d.ok THEN Outcome("Ok", d.val, r.req) ELSE Outcome("Json", "", r.req)
    ELSE IF is_client_error(r.status)
    THEN Outcome("ConsulClient", from_utf8_lossy(r.body), r.req)
    ELSE IF r.status = NOT_FOUND THEN Outcome("NotFound", "", r.req)
    ELSE IF is_server_error(r.status)
    THEN Outcome("ConsulServer", from_utf8_lossy(r.body), r.req)
    ELSE Outcome("Panic", "unreachable", r.req)

\* ConsulFuture::poll once the inner future is ready with r.
poll(R, r) ==
    IF r.tag = "error" THEN Outcome("Inner", "", r.req)
    ELSE IF is_success(r.status) \/ is_redirection(r.status) \/ is_informational(r.status)
    THEN LET d == from_slice(R, r.body)
         IN  IF d.ok THEN Outcome("Ok", d.val, r.req) ELSE Outcome("Json", "", r.req)
    ELSE IF r.status = NOT_FOUND THEN Outcome("NotFound", "", r.req)
    ELSE IF is_client_error(r.status)
    THEN Outcome("ConsulClient", from_utf8_lossy(r.body), r.req)
    ELSE IF is_server_error(r.status)
    THEN Outcome("ConsulServer", from_utf8_lossy(r.body), r.req)
    ELSE Outcome("Panic", "unreachable", r.req)

\* What the future of operation op yields for the transport result r.
Resolve(op, r) == IF op = "register" THEN register_future(r) ELSE poll(DecodeType(op), r)

\* ------------------------------------------------------------------- state
VARIABLES
    mode,        \* which inputs the behaviour draws from (see Args .. Limit)
    bound,       \* the bound N handed to Consul::new
    scheme,      \* Consul.scheme
    authority,   \* Consul.authority
    nsub,        \* number of operations invoked so far; calls are numbered 1..nsub
    calls,       \* calls[c]: the operation, its argument and its bytes
    req,         \* req[c]: the request built for call c, or NoRequest
    fut,         \* fut[c]: "unused", "err" (ready with the build error),
                 \*         "inner" (waiting on the Buffer's future), "done"
    queue,       \* calls accepted by the multiplexer and waiting for a slot
    dispatched,  \* calls handed to the transport and not yet completed
    slot,        \* slot[c]: the result slot of call c
    outcome,     \* outcome[c]: what the caller's future resolved with
    writes,      \* writes[c]: how often slot[c] was assigned
    resolves,    \* resolves[c]: how often the future of c resolved
    spawned,     \* whether Buffer::new could spawn its worker
    client,      \* what Consul::new returned: "Ok" or "SpawnError"
    clones,      \* clones[h]: the h-th clone of the client
    via,         \* via[c]: the handle call c was made on (0: the original)
    store        \* the keys the key-value service holds

\* What no operation and no completion changes.
config == <<mode, bound, scheme, authority, spawned, client>>

vars == <<mode, bound, scheme, authority, nsub, calls, req, fut, queue,
          dispatched, slot, outcome, writes, resolves, spawned, client,
          clones, via, store>>

CallIds == 1..MaxCalls
NoCall == [op |-> "none", arg |-> <<>>, bytes |-> EmptyBytes]

\* ------------------------------------------------------------------ inputs
\* A scheme and an authority that do not parse, beside ones that do.
BadScheme == <<"ht", " ", "tp">>
BadAuthority == <<"bad", " ", "host">>
Schemes == {<<"http">>, BadScheme}
Authorities == {<<"127.0.0.1:8500">>, BadAuthority}

AllArgs == {<<>>, <<"a">>, <<"a/b">>, <<"a", "?", "b">>, <<"a", "#", "b">>, <<"a", " ", "b">>}
AllBytes == {EmptyBytes, "hello"}
AllStatuses == 100..599
AllBodies == {"", "true", "false", "[]", "[kv]", "[keys]", "[nodes]", "oops", InvalidUtf8}

\* Every status the claims speak of, the ones no branch classifies included.
WideStatuses == 100..999
KvArgs == {<<"a">>, <<"b">>}

\* The inputs of each mode:
\*   "system" many calls, few inputs       "call"   one call, every input
\*   "status" one call, every status       "small"  few calls, few inputs
\*   "kv"     calls against the key-value service, each awaited
Args == CASE mode = "call" -> AllArgs [] mode = "kv" -> KvArgs [] OTHER -> {<<"a">>}
Bytes == IF mode = "call" THEN AllBytes ELSE {"hello"}
Statuses ==
    CASE mode = "call" -> AllStatuses [] mode = "status" -> WideStatuses [] OTHER -> {200}
Bodies == IF mode \in {"call", "status"} THEN AllBodies ELSE {"true"}
Limit ==
    CASE mode \in {"call", "status"} -> 1
      [] mode = "small" -> MaxSmallCalls
      [] OTHER -> MaxCalls

\* ------------------------------------------------------------- multiplexer
\* (mutant) a bound that is off by one.
BufferBoundPlusOne == bound + 1

\* The bound Consul::new hands to Buffer::new.
BufferBound == bound

\* The handles of the client: 0 is the value Consul::new returned, h > 0 its
\* h-th clone.  inner names the Buffer the handle submits to; Consul::new
\* makes Buffer 1.
Handles == 0..Len(clones)
Handle(h) ==
    IF h = 0 THEN [scheme |-> scheme, authority |-> authority, inner |-> 1]
    ELSE clones[h]

\* The Buffer call c was submitted to.
BufferOf(c) == Handle(via[c]).inner

\* The calls Buffer m has at the transport, and those waiting for it, oldest
\* first.
InFlight(m) == {d \in dispatched : BufferOf(d) = m}
Waiting(m) == LET Mine(d) == BufferOf(d) = m IN SelectSeq(queue, Mine)

\* Buffer m has a free slot.
HasSlot(m) == Cardinality(InFlight(m)) < BufferBound

\* (mutant) the newest waiting call instead of the oldest.
NextWaitingNewest(q) == q[Len(q)]

\* The waiting call the multiplexer dispatches next.
NextWaiting(q) == Head(q)

\* The queue without call d.
RestWaiting(q, d) == LET Other(x) == x # d IN SelectSeq(q, Other)

\* submit to Buffer m: dispatch at once when a slot is free, else wait in
\* arrival order.
Submit(c, m) ==
    IF HasSlot(m)
    THEN /\ dispatched' = dispatched \cup {c}
         /\ UNCHANGED queue
    ELSE /\ queue' = Append(queue, c)
         /\ UNCHANGED dispatched

\* (mutant) a completion that frees the slot and leaves the waiting calls
\* where they are.
CompleteKeepsWaiting(c) ==
    /\ dispatched' = dispatched \ {c}
    /\ queue' = queue

\* completion of c: free its slot and dispatch the oldest waiting call.
Complete(c) ==
    IF Waiting(BufferOf(c)) # <<>>
    THEN /\ dispatched' = (dispatched \ {c}) \cup {NextWaiting(Waiting(BufferOf(c)))}
         /\ queue' = RestWaiting(queue, NextWaiting(Waiting(BufferOf(c))))
    ELSE /\ dispatched' = dispatched \ {c}
         /\ UNCHANGED queue

\* ------------------------------------------------------------------ client
\* (mutant) a call that hands nothing to the Buffer when no slot is free.
callDropWhenFull(c, m) ==
    /\ fut' = [fut EXCEPT ![c] = "inner"]
    /\ IF HasSlot(m) THEN Submit(c, m)
       ELSE UNCHANGED <<queue, dispatched>>

\* Consul::call (and the same step inside register): hand the request to
\* the Buffer m of self.inner and return the future that waits on it.
call(c, m) ==
    /\ fut' = [fut EXCEPT ![c] = "inner"]
    /\ Submit(c, m)

\* One operation on handle h: build the request; on a build error return a
\* future that is ready with it, else hand the request to the Buffer.
InvokeOn(h, op, arg, bytes) ==
    /\ nsub < Limit
    /\ client = "Ok"
    /\ mode = "kv" => \A d \in 1..nsub : fut[d] = "done"
    /\ LET c == nsub + 1
           r == RequestOf(Handle(h).scheme, Handle(h).authority, op, arg, bytes)
       IN  /\ nsub' = c
           /\ calls' = [calls EXCEPT ![c] = [op |-> op, arg |-> arg, bytes |-> bytes]]
           /\ req' = [req EXCEPT ![c] = r]
           /\ via' = [via EXCEPT ![c] = h]
           /\ IF r.ok
              THEN call(c, Handle(h).inner)
              ELSE /\ fut' = [fut EXCEPT ![c] = "err"]
                   /\ UNCHANGED <<queue, dispatched>>
    /\ UNCHANGED <<config, slot, outcome, writes, resolves, clones, store>>

\* One operation of the client, on any of its handles.
Invoke(op, arg, bytes) == \E h \in Handles : InvokeOn(h, op, arg, bytes)

get(key)              == Invoke("get", key, EmptyBytes)
get_keys(key)         == Invoke("get_keys", key, EmptyBytes)
set(key, value)       == Invoke("set", key, value)
delete(key)           == Invoke("delete", key, EmptyBytes)
service_nodes(service) == Invoke("service_nodes", service, EmptyBytes)
register(service)     == Invoke("register", <<>>, service)

\* (mutant) a clone that gets a Buffer of its own.
cloneOwnBuffer(self) ==
    [scheme |-> self.scheme, authority |-> self.authority, inner |-> self.inner + 1]

\* impl Clone for Consul: the clone holds copies of scheme and authority and
\* a clone of the Buffer handle, which names the same Buffer.
clone(self) ==
    [scheme |-> self.scheme, authority |-> self.authority, inner |-> self.inner]

\* Handle h is cloned.
Clone(h) ==
    /\ client = "Ok"
    /\ Len(clones) < MaxClones
    /\ clones' = Append(clones, clone(Handle(h)))
    /\ UNCHANGED <<config, nsub, calls, req, fut, queue, dispatched, slot, outcome,
                   writes, resolves, via, store>>

\* --------------------------------------------------------------- transport
\* The transport finishes request c with result r; the multiplexer writes
\* the result slot of c and frees the slot of the bound.
Deliver(c, r) ==
    /\ c \in dispatched
    /\ slot' = [slot EXCEPT ![c] = r]
    /\ writes' = [writes EXCEPT ![c] = @ + 1]
    /\ Complete(c)
    /\ UNCHANGED <<config, nsub, calls, req, fut, outcome, resolves, clones, via>>

\* A transport of which only the results are known.
Finish(c, r) == Deliver(c, r) /\ UNCHANGED store

\* The key-value service behind the transport: the keys it holds after
\* request r.  A key is the path below /v1/kv/.
KvStore(r, keys) ==
    CASE r.method = "PUT"    -> keys \cup {Tail(r.path)}
      [] r.method = "DELETE" -> keys \ {Tail(r.path)}
      [] OTHER               -> keys

\* ... and what it answers: a JSON boolean to a write, the entries or the
\* names to a read of a key it holds, 404 to a read of one it does not.
KvAnswer(r, keys) ==
    CASE r.method \in {"PUT", "DELETE"} -> [status |-> 200, body |-> "true"]
      [] Tail(r.path) \notin keys       -> [status |-> NOT_FOUND, body |-> ""]
      [] r.query = NoQuery              -> [status |-> 200, body |-> "[kv]"]
      [] OTHER                          -> [status |-> 200, body |-> "[keys]"]

\* The key-value service serves the dispatched call c.
KvServe(c) ==
    /\ Deliver(c, Response(KvAnswer(req[c], store).status,
                           KvAnswer(req[c], store).body, c))
    /\ store' = KvStore(req[c], store)

TransportRespond(c, status, body) == Finish(c, Response(status, body, c))

TransportFail(c) == Finish(c, TransportError(c))

\* ------------------------------------------------------------------ futures
\* (mutant) a future that reads the result of another call when there is one.
InnerOfOther(c) ==
    IF \E d \in 1..nsub : d # c /\ slot[d].tag # "empty"
    THEN slot[CHOOSE d \in 1..nsub : d # c /\ slot[d].tag # "empty"]
    ELSE slot[c]

\* What the inner future of call c is ready with (self.inner.poll()).
InnerOf(c) == slot[c]

\* (mutant) a future that stays ready and resolves again on the next poll.
PollFutureAgain(c) ==
    /\ c \in 1..nsub
    /\ \/ /\ fut[c] = "err"
          /\ outcome' = [outcome EXCEPT ![c] = Outcome("Http", "", c)]
       \/ /\ fut[c] = "inner"
          /\ slot[c].tag # "empty"
          /\ outcome' = [outcome EXCEPT ![c] = Resolve(calls[c].op, InnerOf(c))]
    /\ resolves' = [resolves EXCEPT ![c] = @ + 1]
    /\ UNCHANGED <<config, nsub, calls, req, fut, queue, dispatched, slot, writes,
                   clones, via, store>>

\* The caller polls the future of call c and it is ready.
PollFuture(c) ==
    /\ c \in 1..nsub
    /\ \/ /\ fut[c] = "err"
          /\ outcome' = [outcome EXCEPT ![c] = Outcome("Http", "", c)]
       \/ /\ fut[c] = "inner"
          /\ slot[c].tag # "empty"
          /\ outcome' = [outcome EXCEPT ![c] = Resolve(calls[c].op, InnerOf(c))]
    /\ fut' = [fut EXCEPT ![c] = "done"]
    /\ resolves' = [resolves EXCEPT ![c] = @ + 1]
    /\ UNCHANGED <<config, nsub, calls, req, queue, dispatched, slot, writes,
                   clones, via, store>>

\* (mutant) a drop that takes the request back from the transport.
DropFutureCancels(c) ==
    /\ c \in 1..nsub
    /\ fut[c] = "inner"
    /\ c \in dispatched
    /\ fut' = [fut EXCEPT ![c] = "dropped"]
    /\ dispatched' = dispatched \ {c}
    /\ UNCHANGED <<config, nsub, calls, req, queue, slot, outcome, writes,
                   resolves, clones, via, store>>

\* The caller drops the future of call c, unresolved, after its request was
\* dispatched: the future is never polled again; the request is the
\* multiplexer's, not the future's.
DropFuture(c) ==
    /\ c \in 1..nsub
    /\ fut[c] = "inner"
    /\ c \in dispatched
    /\ fut' = [fut EXCEPT ![c] = "dropped"]
    /\ UNCHANGED <<config, nsub, calls, req, queue, dispatched, slot, outcome,
                   writes, resolves, clones, via, store>>

\* ----------------------------------------------------------- specifications
InitState ==
    /\ scheme \in Schemes
    /\ authority \in Authorities
    /\ nsub = 0
    /\ calls = [c \in CallIds |-> NoCall]
    /\ req = [c \in CallIds |-> NoRequest]
    /\ fut = [c \in CallIds |-> "unused"]
    /\ queue = <<>>
    /\ dispatched = {}
    /\ slot = [c \in CallIds |-> EmptySlot]
    /\ outcome = [c \in CallIds |-> NoOutcome]
    /\ writes = [c \in CallIds |-> 0]
    /\ resolves = [c \in CallIds |-> 0]
    /\ clones = <<>>
    /\ via = [c \in CallIds |-> 0]

\* (mutant) a constructor that returns a client whether or not the Buffer
\* could be made.
newIgnoringSpawn(ok) == "Ok"

\* Consul::new: Buffer::new(..)? turns a spawn failure into
\* Err(Error::SpawnError), else the client is returned.
new(ok) == IF ok THEN "Ok" ELSE "SpawnError"

\* Consul::new(inner, bound, scheme, authority) has returned Ok.
Constructed ==
    /\ spawned = TRUE
    /\ client = new(spawned)
    /\ InitState

Init ==
    /\ mode = "system"
    /\ bound \in 1..MaxBound
    /\ store = {}
    /\ Constructed

\* A few calls on a client of any bound.
InitSmall ==
    /\ mode = "small"
    /\ bound \in 1..MaxBound
    /\ store = {}
    /\ Constructed

\* One call on a client of bound 1, over every input.
InitCall ==
    /\ mode = "call"
    /\ bound = 1
    /\ store = {}
    /\ Constructed

\* Consul::new has returned, with a client or with the spawn error.
InitNew ==
    /\ mode = "small"
    /\ bound \in 1..MaxBound
    /\ store = {}
    /\ spawned \in BOOLEAN
    /\ client = new(spawned)
    /\ InitState

\* One call on a client of bound 1, answered with any three-digit status.
InitStatus ==
    /\ mode = "status"
    /\ bound = 1
    /\ store = {}
    /\ Constructed

\* Calls made one after the other, each awaited, against a key-value service
\* that holds any of the keys.
InitKv ==
    /\ mode = "kv"
    /\ bound = 1
    /\ store \in SUBSET KvArgs
    /\ Constructed

Next ==
    \/ \E k \in Args : get(k)
    \/ \E k \in Args : get_keys(k)
    \/ \E k \in Args, v \in Bytes : set(k, v)
    \/ \E k \in Args : delete(k)
    \/ \E s \in Args : service_nodes(s)
    \/ \E b \in Bytes : register(b)
    \/ \E c \in dispatched : \E s \in Statuses, b \in Bodies : TransportRespond(c, s, b)
    \/ \E c \in dispatched : TransportFail(c)
    \/ \E c \in 1..nsub : PollFuture(c)

Spec == Init /\ [][Next]_vars

CallSpec == InitCall /\ [][Next]_vars

NewSpec == InitNew /\ [][Next]_vars

StatusSpec == InitStatus /\ [][Next]_vars

\* Callers may abandon their futures.
NextDrop == Next \/ \E c \in 1..nsub : DropFuture(c)

DropSpec == InitSmall /\ [][NextDrop]_vars

\* The client is cloned while it is in use.
NextClone == Next \/ \E h \in Handles : Clone(h)

CloneSpec == InitSmall /\ [][NextClone]_vars

\* The key-value operations against the key-value service.
NextKv ==
    \/ \E k \in Args : get(k)
    \/ \E k \in Args : get_keys(k)
    \/ \E k \in Args, v \in Bytes : set(k, v)
    \/ \E k \in Args : delete(k)
    \/ \E c \in dispatched : KvServe(c)
    \/ \E c \in 1..nsub : PollFuture(c)

KvSpec == InitKv /\ [][NextKv]_vars

\* The transport completes call c, by a response or by its own error.
Completes(c) ==
    \/ \E s \in Statuses, b \in Bodies : TransportRespond(c, s, b)
    \/ TransportFail(c)

\* A transport that completes every call dispatched to it.
LiveSpec == InitSmall /\ [][Next]_vars /\ \A c \in CallIds : WF_vars(Completes(c))

\* ------------------------------------------------------------------ claims
Range(q) == {q[i] : i \in 1..Len(q)}
Submitted == 1..nsub
Done(c) == c \in Submitted /\ fut[c] = "done"
\* Call c is done and its future was fed by a transport response.
Answered(c) == Done(c) /\ slot[c].tag = "response"
SuccessStatus(s) == 100 <= s /\ s <= 399
ErrorKinds == {"NotFound", "ConsulClient", "ConsulServer", "Inner", "Http", "Json",
               "StringUtf8"}

\* C1: the number of requests handed to the transport and not yet completed
\* never exceeds the bound N given to Consul::new.
InFlightWithinBound == Cardinality(dispatched) <= bound

\* C1 witness: the bound is reached and a further call is waiting.
BoundReached == Cardinality(dispatched) = bound /\ Len(queue) >= 1 /\ bound >= 2

\* C2: the status alone classifies the outcome: 1xx, 2xx, 3xx take the
\* success path (a decoded value or a decode error), 404 is NotFound, any
\* other 4xx is ConsulClient and any 5xx is ConsulServer, both carrying the
\* body as text.
StatusDecidesOutcome ==
    \A c \in Submitted : Answered(c) =>
        LET s == slot[c].status
            b == slot[c].body
            o == outcome[c]
        IN  /\ SuccessStatus(s) => o.kind \in {"Ok", "Json"}
            /\ s = 404 => o.kind = "NotFound"
            /\ (400 <= s /\ s <= 499 /\ s # 404) =>
                   o.kind = "ConsulClient" /\ (b # InvalidUtf8 => o.val = b)
            /\ (500 <= s /\ s <= 599) =>
                   o.kind = "ConsulServer" /\ (b # InvalidUtf8 => o.val = b)

\* C2 witness: get_keys answered with 404 ended in NotFound.
GetKeysNotFound ==
    \E c \in Submitted : /\ Answered(c) /\ calls[c].op = "get_keys"
                         /\ slot[c].status = 404 /\ outcome[c].kind = "NotFound"

\* C3: a call submitted while the bound is reached waits: it is queued with
\* its future pending, it is never dropped or rejected, it leaves the queue
\* only by being dispatched, no call waits while a slot is free, and a future
\* resolves with the outcome of its own call.
WaitsInv ==
    /\ \A c \in Submitted : req[c].ok =>
          /\ Cardinality({x \in {"q", "d", "s"} :
                 \/ x = "q" /\ c \in Range(queue)
                 \/ x = "d" /\ c \in dispatched
                 \/ x = "s" /\ slot[c].tag # "empty"}) = 1
          /\ c \in Range(queue) => fut[c] = "inner" /\ outcome[c] = NoOutcome
          /\ Done(c) => outcome[c].of = c /\ outcome[c].kind # "Panic"
    /\ queue # <<>> => Cardinality(dispatched) = bound

WaitsStep ==
    /\ \A c \in Range(queue) : c \in Range(queue') \/ c \in dispatched'
    /\ (Cardinality(dispatched) = bound /\ nsub' = nsub + 1 /\ req'[nsub'].ok) =>
           nsub' \in Range(queue') /\ fut'[nsub'] = "inner"

Backpressure == []WaitsInv /\ [][WaitsStep]_vars

\* C3 witness: every slot is taken and a later call waits with its future
\* pending.
CallWaiting ==
    \E c \in Range(queue) : /\ Cardinality(dispatched) = bound
                            /\ fut[c] = "inner" /\ outcome[c] = NoOutcome

\* C4: whenever a waiting call is dispatched, no call submitted before it is
\* still waiting (calls are numbered in submission order).
FifoDispatch ==
    [][\A b \in (dispatched' \ dispatched) \cap Range(queue) :
           \A a \in Range(queue) \ {b} : b < a]_vars

\* C4 witness: two calls wait at once, in the order they were submitted.
TwoWaiting == bound = 1 /\ queue = <<2, 3>>

WriteAlwaysTrue ==
    \A c \in Submitted :
        (Answered(c) /\ calls[c].op \in {"set", "delete"} /\ SuccessStatus(slot[c].status))
            => outcome[c].kind = "Ok" /\ outcome[c].val = "true"

\* C6 amended: set and delete on a successful status yield the boolean the
\* body decodes to, and Error::Json when the body is not a JSON boolean.
WriteYieldsDecodedBool ==
    \A c \in Submitted :
        (Answered(c) /\ calls[c].op \in {"set", "delete"} /\ SuccessStatus(slot[c].status))
            => IF slot[c].body \in {"true", "false"}
               THEN outcome[c].kind = "Ok" /\ outcome[c].val = slot[c].body
               ELSE outcome[c].kind = "Json"

\* C6 witness: set answered 200 with body `false` yielded false.
SetYieldedFalse ==
    \E c \in Submitted : /\ Answered(c) /\ calls[c].op = "set" /\ slot[c].status = 200
                         /\ slot[c].body = "false"
                         /\ outcome[c].kind = "Ok" /\ outcome[c].val = "false"

\* C7: on a client whose scheme or authority does not parse, no call reaches
\* the multiplexer or the transport, and every future resolves with
\* Error::Http.
BadConfig == scheme = BadScheme \/ authority = BadAuthority

UriErrorBeforeSubmit ==
    BadConfig =>
        /\ queue = <<>>
        /\ dispatched = {}
        /\ \A c \in Submitted :
              /\ ~req[c].ok
              /\ fut[c] \in {"err", "done"}
              /\ slot[c] = EmptySlot
              /\ writes[c] = 0
              /\ Done(c) => outcome[c] = Outcome("Http", "", c)

\* C7 witness: with a bad authority the first call and the next one both
\* ended in Error::Http.
TwoUriErrors ==
    /\ authority = BadAuthority /\ scheme # BadScheme
    /\ Done(1) /\ outcome[1].kind = "Http"
    /\ Done(2) /\ outcome[2].kind = "Http"

\* C8: the result slot of a call is assigned at most once and with the
\* result of its own request, its future resolves at most once, and the
\* outcome delivered is the one of the caller's own call.
ResolvedExactlyOnce ==
    \A c \in CallIds :
        /\ writes[c] <= 1
        /\ resolves[c] <= 1
        /\ slot[c].tag # "empty" => writes[c] = 1 /\ slot[c].req = c
        /\ IF fut[c] = "done"
           THEN /\ resolves[c] = 1
                /\ outcome[c].of = c
                /\ req[c].ok => writes[c] = 1
           ELSE resolves[c] = 0 /\ outcome[c] = NoOutcome

\* C8 witness: two calls resolved, each with its own and a different outcome.
TwoOwnOutcomes ==
    /\ Done(1) /\ outcome[1].kind = "Inner" /\ outcome[1].of = 1
    /\ Done(2) /\ outcome[2].kind = "Ok" /\ outcome[2].of = 2

\* C9 as stated: every request built matches the table for every argument.
RequestMatchesTable ==
    \A c \in Submitted : req[c].ok =>
        LET op == calls[c].op
            a == calls[c].arg
            r == req[c]
        IN  /\ r.scheme = scheme /\ r.authority = authority
            /\ r.method = MethodOf(op)
            /\ r.body = (IF op \in {"set", "register"} THEN calls[c].bytes ELSE EmptyBytes)
            /\ r.path = (CASE op \in {"get", "get_keys", "set", "delete"} -> <<"/v1/kv/">> \o a
                           [] op = "service_nodes" -> <<"/v1/catalog/service/">> \o a
                           [] op = "register" -> <<"/v1/agent/service/register">>)
            /\ r.query = (IF op = "get_keys" THEN <<"keys">> ELSE NoQuery)

CompletionStep ==
    \A c \in dispatched :
        (slot[c].tag = "empty" /\ slot'[c].tag # "empty") =>
            IF queue # <<>>
            THEN /\ dispatched' = (dispatched \ {c}) \cup {Head(queue)}
                 /\ queue' = Tail(queue)
            ELSE /\ dispatched' = dispatched \ {c}
                 /\ queue' = queue

EveryCallServed ==
    /\ [][CompletionStep]_vars
    /\ \A c \in CallIds :
          /\ (c \in Range(queue)) ~> (c \in dispatched)
          /\ (c \in Submitted /\ req[c].ok) ~> (slot[c].tag # "empty")

\* C11 witness: on a client of bound 1 the first call is still at the
\* transport when the second is made; the first ends in a transport failure,
\* the second, which had to wait for that, in a response, and its future has
\* resolved.
WaitingCallsServed ==
    /\ bound = 1
    /\ nsub >= 2
    /\ fut[1] = "inner"
    /\ slot[1].tag = "error"
    /\ slot[2].tag = "response"
    /\ Done(2)

\* C12: a clone shares the multiplexer and its bound: the requests dispatched
\* to the transport through the original and all its clones together never
\* exceed N, and every clone has the scheme and the authority of the
\* original.
ClonesShareBound ==
    /\ Cardinality(dispatched) <= bound
    /\ \A h \in Handles :
          /\ Handle(h).scheme = scheme
          /\ Handle(h).authority = authority
    /\ \A c \in Submitted :
          req[c].ok => req[c].scheme = scheme /\ req[c].authority = authority

\* C12 witness: on a client of bound 1 a call made on the original is at the
\* transport and a call made on a clone waits for its slot.
CloneWaitsForOriginal ==
    /\ bound = 1
    /\ Len(clones) >= 1
    /\ via[1] = 0 /\ 1 \in dispatched
    /\ via[2] = 1 /\ queue = <<2>>

\* The path the template of op opens with and the query it carries.
TemplateRoot(op) == Head(UrlOf(op, <<>>))
TemplateQuery(op) == IF op = "get_keys" THEN <<"keys">> ELSE NoQuery

\* C13: every request handed to the multiplexer has a path rooted at the
\* /v1/ prefix of its operation's template, followed by the whole argument,
\* and the query of the template: no character of the argument changes which
\* path and query the request carries.
PathPercentSafe ==
    \A c \in Submitted :
        req[c].ok =>
            /\ Head(req[c].path) = TemplateRoot(calls[c].op)
            /\ Len(req[c].path) = 1 + Len(calls[c].arg)
            /\ req[c].query = TemplateQuery(calls[c].op)

\* C14: register answered with any 1xx, 2xx or 3xx status yields unit whatever
\* the body is, an empty or non-JSON body included; register never ends in a
\* decode error.
RegisterYieldsUnit ==
    \A c \in Submitted :
        (calls[c].op = "register" /\ Done(c)) =>
            /\ outcome[c].kind # "Json"
            /\ (Answered(c) /\ SuccessStatus(slot[c].status)) =>
                   outcome[c] = Outcome("Ok", "()", c)

\* C14 witness: register answered 204 with an empty body, and register
\* answered with a body that is no JSON, both yield unit.
RegisterOkWithoutJson ==
    \E c \in Submitted :
        /\ calls[c].op = "register"
        /\ Answered(c)
        /\ \/ slot[c].status = 204 /\ slot[c].body = ""
           \/ slot[c].status = 302 /\ slot[c].body = "oops"
        /\ outcome[c] = Outcome("Ok", "()", c)

\* Call g reads key k after a delete of k with no set of k in between.
ReadsAfterDelete(g, k) ==
    \E d \in 1..(g - 1) :
        /\ calls[d].op = "delete" /\ calls[d].arg = k
        /\ \A x \in (d + 1)..(g - 1) : ~(calls[x].op = "set" /\ calls[x].arg = k)

\* C15: against a key-value service, with every call awaited before the next
\* is made, each delete of a key yields true, the second as the first, and a
\* get of that key made after the deletes yields NotFound, whether or not the
\* service held the key at the start.
DeleteIdempotent ==
    \A c \in Submitted :
        (req[c].ok /\ Done(c)) =>
            /\ calls[c].op = "delete" => outcome[c] = Outcome("Ok", "true", c)
            /\ (calls[c].op = "get" /\ ReadsAfterDelete(c, calls[c].arg)) =>
                   outcome[c] = Outcome("NotFound", "", c)

\* C15 witness: delete, delete, get of one key, each awaited: true, true,
\* NotFound.
DeletedTwiceThenRead ==
    /\ nsub >= 3
    /\ \A c \in 1..3 : Done(c) /\ req[c].ok /\ calls[c].arg = <<"a">>
    /\ calls[1].op = "delete" /\ outcome[1] = Outcome("Ok", "true", 1)
    /\ calls[2].op = "delete" /\ outcome[2] = Outcome("Ok", "true", 2)
    /\ calls[3].op = "get" /\ outcome[3] = Outcome("NotFound", "", 3)

\* C16: Consul::new returns a usable client, or it returns the spawn error
\* and no client, on which therefore no operation is ever made; and no
\* operation on a client resolves with the spawn error.
SpawnErrorOnlyFromNew ==
    /\ client = (IF spawned THEN "Ok" ELSE "SpawnError")
    /\ client = "SpawnError" =>
          /\ nsub = 0
          /\ queue = <<>> /\ dispatched = {}
          /\ \A c \in CallIds : fut[c] = "unused" /\ outcome[c] = NoOutcome
    /\ \A c \in CallIds : outcome[c].kind # "SpawnError"

\* C16 witness: the Buffer could not spawn its worker and Consul::new
\* returned the spawn error.
NewFailedToSpawn == ~spawned /\ client = "SpawnError"

\* C17: dropping the future of a dispatched request does not cancel it: the
\* drop changes neither the dispatched requests nor the waiting calls nor any
\* result, a request leaves the transport only by its completion, and every
\* request handed to the multiplexer, dropped future or not, is waiting, at
\* the transport, or completed.
DropStep ==
    /\ \A c \in Submitted :
          (fut[c] = "inner" /\ fut'[c] = "dropped") =>
              dispatched' = dispatched /\ queue' = queue /\ slot' = slot
    /\ \A c \in dispatched :
          c \notin dispatched' => slot[c].tag = "empty" /\ slot'[c].tag # "empty"

RequestKept ==
    \A c \in Submitted :
        req[c].ok => c \in Range(queue) \/ c \in dispatched \/ slot[c].tag # "empty"

DropDoesNotCancel == []RequestKept /\ [][DropStep]_vars

\* C17 witness: on a client of bound 1 the future of the first call was
\* dropped while its request was at the transport; the request was completed
\* all the same, and the second call, which waited behind it, was dispatched
\* and resolved.
DroppedCallCompleted ==
    /\ bound = 1
    /\ fut[1] = "dropped"
    /\ slot[1].tag = "response"
    /\ resolves[1] = 0
    /\ Done(2) /\ outcome[2].kind = "Ok"

\* The bodies that are JSON of the shape operation op expects.
ExpectedShape(op) ==
    CASE op = "get"           -> {"[]", "[kv]"}
      [] op = "get_keys"      -> {"[]", "[keys]"}
      [] op = "service_nodes" -> {"[]", "[nodes]"}

\* C18: for get, get_keys and service_nodes the status is classified before
\* any decoding: with a 1xx, 2xx or 3xx status a body that does not decode
\* into the typed result yields a decode error (and one that does, the value),
\* and with an error status the outcome is neither a decode error nor a
\* value, even when the body is JSON of the expected shape.
StatusBeforeDecode ==
    \A c \in Submitted :
        (calls[c].op \in {"get", "get_keys", "service_nodes"} /\ Answered(c)) =>
            IF SuccessStatus(slot[c].status)
            THEN IF slot[c].body \in ExpectedShape(calls[c].op)
                 THEN outcome[c] = Outcome("Ok", slot[c].body, c)
                 ELSE outcome[c] = Outcome("Json", "", c)
            ELSE outcome[c].kind \notin {"Json", "Ok"}

\* C18 witness: get answered 500 with a body that is a valid list of entries
\* ends in the server error, and get_keys answered 200 with a body of the
\* wrong shape in a decode error.
ErrorStatusWithValidJson ==
    \E c \in Submitted :
        /\ Answered(c)
        /\ \/ /\ calls[c].op = "get"
              /\ slot[c].status = 500 /\ slot[c].body = "[kv]"
              /\ outcome[c] = Outcome("ConsulServer", "[kv]", c)
           \/ /\ calls[c].op = "get_keys"
              /\ slot[c].status = 200 /\ slot[c].body = "[kv]"
              /\ outcome[c] = Outcome("Json", "", c)

Polled(r) == {poll(DecodeType(op), r) : op \in Ops \ {"register"}}

\* C20: the two status interpreters agree on every response: where
\* handle_status takes the success branch poll takes it too (and ends in a
\* value or a decode error, which is all they differ in); where handle_status
\* ends in an error poll ends in the same error with the same message, and
\* that is the outcome of the call whichever operation made it.
InterpretersAgree ==
    \A c \in Submitted :
        Answered(c) =>
            IF handle_status(slot[c]).kind = "Ok"
            THEN /\ \A p \in Polled(slot[c]) : p.kind \in {"Ok", "Json"}
                 /\ outcome[c].kind \in {"Ok", "Json"}
            ELSE /\ Polled(slot[c]) = {handle_status(slot[c])}
                 /\ outcome[c] = handle_status(slot[c])

\* C20 witness: register, answered 404, ends in NotFound as handle_status
\* says, and delete, answered 503 with a body that is not UTF-8, in the
\* server error with the lossy text, as poll says; each interpreter gives the
\* other's answer.
SameErrorFromBoth ==
    \E c \in Submitted :
        /\ Answered(c)
        /\ \/ /\ calls[c].op = "register" /\ slot[c].status = NOT_FOUND
              /\ outcome[c] = Outcome("NotFound", "", c)
              /\ poll("bool", slot[c]) = outcome[c]
           \/ /\ calls[c].op = "delete" /\ slot[c].status = 503
              /\ slot[c].body = InvalidUtf8
              /\ outcome[c] = Outcome("ConsulServer", Replacement, c)
              /\ handle_status(slot[c]) = outcome[c]

====
